---- MODULE Spec2Model ----
(***************************************************************************)
(* Ledger engine of toy-bank (src/src/bank.rs): BankDatabase and           *)
(* execute_transaction, driven by a bounded stream of transactions as      *)
(* main.rs feeds them, one at a time and in input order.                   *)
(***************************************************************************)
EXTENDS Integers, FiniteSets, Sequences, TLC

(* ---- bound of the model ---- *)
\* length of the input: main's loop is followed for MaxSteps transactions
MaxSteps == 5

(* ---- the inputs, taken from the transactions of the tests of bank.rs ---- *)
CLIENT_1 == 10
CLIENT_DONT_CARE == 20
DONT_CARE == 0

\* client ids are opaque u16 keys
Clients == {CLIENT_1, CLIENT_DONT_CARE}
\* the ids of GIVE_50_CLIENT_1 and GIVE_100_CLIENT_1
TxIds == {1, 2}
\* the amounts of the tests
NonNegAmounts == {DONT_CARE, 50, 100}
\* string_to_fixed_point lets a signed fraction through ("0.-0050"), so a
\* negative amount can reach the ledger as well
Amounts == {-50, DONT_CARE, 50}

TransactionType == {"DEPOSIT", "WITHDRAWAL", "DISPUTE", "RESOLVE", "CHARGEBACK"}

Transaction(type, client, amount) ==
    [type |-> type, client |-> client, amount |-> amount]

\* #[derive(Default)] Account: funds all zeroed and not locked
DefaultAccount == [available_funds |-> 0, held_funds |-> 0, locked |-> FALSE]

get_total_funds(account) == account.available_funds + account.held_funds

DepositRecord(transaction) ==
    [client |-> transaction.client, amount |-> transaction.amount]

\* the messages execute_transaction prints with eprintln!
NoWarning == "none"
WarnFrozen == "Error: Withdrawal attempted on frozen account"
WarnInsufficient == "Error: withdrawal bigger than available funds"
WarnDuplicateDispute == "Warning: Dropped duplicate dispute claim"
WarnInvalidDispute == "Warning: Dropped dispute with invalid tx id"
WarnUndisputedResolve == "Warning: Dropped dispute resolve with undisputed tx"
WarnUndisputedChargeback == "Warning: Dropped chargeback with undisputed tx"

(* ---- fixed-point codec (src/src/fixedpoint.rs) ---- *)

\* bounds of the codec's inputs
MaxLen == 7
MaxFixedPoint == 20000

FIXED_POINT_MAGNITUDE == 10000
EXPECTED_PRECISION == 4

\* text is a sequence of one-character strings
Digits == {"0", "1", "2", "3", "4", "5", "6", "7", "8", "9"}
\* the characters of the bounded inputs: two digits, the dot, the sign and a
\* character that is none of these
Chars == {"0", "1", ".", "-", "a"}
Texts == UNION {[1..n -> Chars] : n \in 0..MaxLen}
FixedPoints == (0 - MaxFixedPoint)..MaxFixedPoint

DigitValue(c) ==
    CASE c = "0" -> 0 [] c = "1" -> 1 [] c = "2" -> 2 [] c = "3" -> 3
      [] c = "4" -> 4 [] c = "5" -> 5 [] c = "6" -> 6 [] c = "7" -> 7
      [] c = "8" -> 8 [] c = "9" -> 9

DigitChar(d) ==
    CASE d = 0 -> "0" [] d = 1 -> "1" [] d = 2 -> "2" [] d = 3 -> "3"
      [] d = 4 -> "4" [] d = 5 -> "5" [] d = 6 -> "6" [] d = 7 -> "7"
      [] d = 8 -> "8" [] d = 9 -> "9"

\* Result<i64, &'static str>, and the outcome of a failed expect()
Ok(value) == [kind |-> "Ok", value |-> value]
Err(msg) == [kind |-> "Err", msg |-> msg]
Panicked(msg) == [kind |-> "Panic", msg |-> msg]
NoResult == [kind |-> "None"]

\* 10i64.pow(n)
RECURSIVE Pow10(_)
Pow10(n) == IF n = 0 THEN 1 ELSE 10 * Pow10(n - 1)

\* str::split("."): the pieces between the dots, empty pieces included
RECURSIVE Split(_)
Split(text) ==
    IF \A i \in 1..Len(text) : text[i] # "."
    THEN <<text>>
    ELSE LET dot == CHOOSE i \in 1..Len(text) :
                        text[i] = "." /\ \A j \in 1..(i - 1) : text[j] # "."
         IN  <<SubSeq(text, 1, dot - 1)>> \o Split(SubSeq(text, dot + 1, Len(text)))

\* the value of a non-empty run of decimal digits
RECURSIVE DigitsValue(_)
DigitsValue(digits) ==
    IF Len(digits) = 0 THEN 0
    ELSE 10 * DigitsValue(SubSeq(digits, 1, Len(digits) - 1))
         + DigitValue(digits[Len(digits)])

\* str::parse::<i64>(): an optional + or - and at least one digit, nothing
\* else (the texts of the model are too short to overflow an i64)
ParseI64(text) ==
    IF Len(text) = 0 THEN Err("cannot parse integer from empty string")
    ELSE LET signed == text[1] \in {"+", "-"}
             digits == IF signed THEN Tail(text) ELSE text
         IN  IF Len(digits) = 0 \/ \E i \in 1..Len(digits) : digits[i] \notin Digits
             THEN Err("invalid digit found in string")
             ELSE Ok(IF text[1] = "-" THEN 0 - DigitsValue(digits)
                     ELSE DigitsValue(digits))

\* string_to_fixed_point as it would be without the scaling of the fraction
string_to_fixed_point_Unscaled(string) ==
    LET split_amount == Split(string)
    IN  IF Len(split_amount) # 2
        THEN Err("Amount contains more than one dot or less than one dot")
        ELSE
        LET units == ParseI64(split_amount[1])
            digits == Len(split_amount[2])
            ten_thousandths == ParseI64(split_amount[2])
        IN  IF units.kind # "Ok" THEN Panicked("Couldn't parse amount")
            ELSE IF units.value < 0 THEN Err("Invalid amount: negative")
            ELSE IF digits > EXPECTED_PRECISION
            THEN Err("Provided amount exceeds asserted 4 digits past point fixed point precision")
            ELSE IF ten_thousandths.kind # "Ok"
            THEN Panicked("Couldnt parse ten thousandths")
            ELSE Ok(units.value * FIXED_POINT_MAGNITUDE + ten_thousandths.value)

\* string_to_fixed_point as it would be if only a missing dot were refused
string_to_fixed_point_AnyDots(string) ==
    LET split_amount == Split(string)
    IN  IF Len(split_amount) < 2
        THEN Err("Amount contains more than one dot or less than one dot")
        ELSE
        LET units == ParseI64(split_amount[1])
            digits == Len(split_amount[2])
            ten_thousandths == ParseI64(split_amount[2])
        IN  IF units.kind # "Ok" THEN Panicked("Couldn't parse amount")
            ELSE IF units.value < 0 THEN Err("Invalid amount: negative")
            ELSE IF digits > EXPECTED_PRECISION
            THEN Err("Provided amount exceeds asserted 4 digits past point fixed point precision")
            ELSE IF ten_thousandths.kind # "Ok"
            THEN Panicked("Couldnt parse ten thousandths")
            ELSE Ok(units.value * FIXED_POINT_MAGNITUDE
                    + ten_thousandths.value * Pow10(EXPECTED_PRECISION - digits))

string_to_fixed_point(string) ==
    LET split_amount == Split(string)
    IN  IF Len(split_amount) # 2
        THEN Err("Amount contains more than one dot or less than one dot")
        ELSE
        LET units == ParseI64(split_amount[1])
            digits == Len(split_amount[2])
            ten_thousandths == ParseI64(split_amount[2])
        IN  IF units.kind # "Ok" THEN Panicked("Couldn't parse amount")
            ELSE IF units.value < 0 THEN Err("Invalid amount: negative")
            ELSE IF digits > EXPECTED_PRECISION
            THEN Err("Provided amount exceeds asserted 4 digits past point fixed point precision")
            ELSE IF ten_thousandths.kind # "Ok"
            THEN Panicked("Couldnt parse ten thousandths")
            ELSE Ok(units.value * FIXED_POINT_MAGNITUDE
                    + ten_thousandths.value * Pow10(EXPECTED_PRECISION - digits))

\* i64 division truncates toward zero
TruncDiv(a, b) == IF a >= 0 THEN a \div b ELSE 0 - ((0 - a) \div b)

\* i64::abs
Abs(a) == IF a >= 0 THEN a ELSE 0 - a

\* the decimal digits of a non-negative integer
RECURSIVE NatToString(_)
NatToString(n) ==
    IF n < 10 THEN <<DigitChar(n)>>
    ELSE NatToString(n \div 10) \o <<DigitChar(n % 10)>>

\* Display for i64, as "{}" renders it
I64ToString(n) == IF n < 0 THEN <<"-">> \o NatToString(0 - n) ELSE NatToString(n)

\* the format spec "4>0" of the fraction: fill '4', align right, the 0 flag and
\* no width, so nothing is ever padded
FractionSpec == [fill |-> "4", align |-> ">", zero_flag |-> TRUE, width |-> 0]

\* an integer rendered under a format spec: padded on the left up to the width
FormatI64(n, spec) ==
    LET text == I64ToString(n)
        missing == IF spec.width > Len(text) THEN spec.width - Len(text) ELSE 0
    IN  [i \in 1..missing |-> IF spec.zero_flag THEN "0" ELSE spec.fill] \o text

fixed_point_to_string(fixed_point) ==
    I64ToString(TruncDiv(fixed_point, FIXED_POINT_MAGNITUDE))
    \o <<".">>
    \o FormatI64(Abs(fixed_point) % FIXED_POINT_MAGNITUDE, FractionSpec)

VARIABLES
    accounts,   \* HashMap<u16, Account>: a function on the clients that have an account
    deposits,   \* BTreeMap<u32, DepositRecord>: a function on the recorded ids
    disputes,   \* HashSet<u32>
    aborted,    \* TRUE once an expect() of execute_transaction has panicked
    warning,    \* what the last call printed on stderr, NoWarning if nothing
    last,       \* the (id, transaction) the last call was given
    step,       \* number of transactions consumed from the input
    before,     \* the database as it was when the last call started
    pc,         \* "ledger" while transactions are executed, else the codec's position
    amount_text,    \* the text given to string_to_fixed_point
    parsed,         \* what string_to_fixed_point returned for it
    amount_value,   \* the value given to fixed_point_to_string
    rendered        \* the text fixed_point_to_string returned for it

codec_vars == <<pc, amount_text, parsed, amount_value, rendered>>

vars == <<accounts, deposits, disputes, aborted, warning, last, step, before,
          pc, amount_text, parsed, amount_value, rendered>>

NoTransaction == [tx |-> 0, type |-> "NONE", client |-> 0, amount |-> 0]

\* HashMap::entry(k).or_default()
OrDefault(accts, client) ==
    IF client \in DOMAIN accts THEN accts
    ELSE [c \in DOMAIN accts \cup {client} |->
            IF c = client THEN DefaultAccount ELSE accts[c]]

\* BTreeMap::insert(k, v): an existing entry is replaced
Insert(map, key, value) ==
    [k \in DOMAIN map \cup {key} |-> IF k = key THEN value ELSE map[k]]

\* the three collections of a BankDatabase
Database(accts, deps, disps) ==
    [accounts |-> accts, deposits |-> deps, disputes |-> disps]

\* BankDatabase::default()
EmptyDatabase ==
    /\ accounts = <<>>
    /\ deposits = <<>>
    /\ disputes = {}
    /\ aborted = FALSE
    /\ warning = NoWarning
    /\ last = NoTransaction
    /\ step = 0
    /\ before = Database(<<>>, <<>>, {})

\* main: an empty database, about to execute the transactions of the input
Init ==
    /\ EmptyDatabase
    /\ pc = "ledger"
    /\ amount_text = <<>>
    /\ parsed = NoResult
    /\ amount_value = 0
    /\ rendered = <<>>

\* an expect() that fails: the process panics, the database is left as it was
Panic ==
    /\ aborted' = TRUE
    /\ warning' = "panic"
    /\ UNCHANGED <<accounts, deposits, disputes>>

\* Deposit as it would be if a locked account refused deposits
DepositRejectsLocked(transaction_id, transaction) ==
    LET created == OrDefault(accounts, transaction.client)
        credited == [created EXCEPT ![transaction.client].available_funds =
                                        @ + transaction.amount]
    IN  IF created[transaction.client].locked
        THEN /\ accounts' = created
             /\ warning' = WarnFrozen
             /\ UNCHANGED <<deposits, disputes, aborted>>
        ELSE /\ accounts' = OrDefault(credited, transaction.client)
             /\ deposits' = Insert(deposits, transaction_id,
                                   DepositRecord(transaction))
             /\ warning' = NoWarning
             /\ UNCHANGED <<disputes, aborted>>

Deposit(transaction_id, transaction) ==
    LET created == OrDefault(accounts, transaction.client)
        credited == [created EXCEPT ![transaction.client].available_funds =
                                        @ + transaction.amount]
    IN  /\ accounts' = OrDefault(credited, transaction.client)
        /\ deposits' = Insert(deposits, transaction_id, DepositRecord(transaction))
        /\ warning' = NoWarning
        /\ UNCHANGED <<disputes, aborted>>

\* Withdrawal as it would be with <= in place of < in the funds check
WithdrawalOffByOne(transaction_id, transaction) ==
    LET created == OrDefault(accounts, transaction.client)
        transaction_account == created[transaction.client]
    IN  IF transaction_account.locked
        THEN /\ accounts' = created
             /\ warning' = WarnFrozen
             /\ UNCHANGED <<deposits, disputes, aborted>>
        ELSE IF transaction_account.available_funds <= transaction.amount
        THEN /\ accounts' = created
             /\ warning' = WarnInsufficient
             /\ UNCHANGED <<deposits, disputes, aborted>>
        ELSE /\ accounts' = [created EXCEPT ![transaction.client].available_funds =
                                                @ - transaction.amount]
             /\ warning' = NoWarning
             /\ UNCHANGED <<deposits, disputes, aborted>>

\* Withdrawal as it would be without the check of the locked flag
WithdrawalIgnoresLock(transaction_id, transaction) ==
    LET created == OrDefault(accounts, transaction.client)
        transaction_account == created[transaction.client]
    IN  IF transaction_account.available_funds < transaction.amount
        THEN /\ accounts' = created
             /\ warning' = WarnInsufficient
             /\ UNCHANGED <<deposits, disputes, aborted>>
        ELSE /\ accounts' = [created EXCEPT ![transaction.client].available_funds =
                                                @ - transaction.amount]
             /\ warning' = NoWarning
             /\ UNCHANGED <<deposits, disputes, aborted>>

Withdrawal(transaction_id, transaction) ==
    LET created == OrDefault(accounts, transaction.client)
        transaction_account == created[transaction.client]
    IN  \/ /\ transaction_account.locked
           /\ accounts' = created
           /\ warning' = WarnFrozen
           /\ UNCHANGED <<deposits, disputes, aborted>>
        \/ /\ ~transaction_account.locked
           /\ transaction_account.available_funds < transaction.amount
           /\ accounts' = created
           /\ warning' = WarnInsufficient
           /\ UNCHANGED <<deposits, disputes, aborted>>
        \/ /\ ~transaction_account.locked
           /\ ~(transaction_account.available_funds < transaction.amount)
           /\ accounts' = OrDefault(
                  [created EXCEPT ![transaction.client].available_funds =
                                      @ - transaction.amount],
                  transaction.client)
           /\ warning' = NoWarning
           /\ UNCHANGED <<deposits, disputes, aborted>>

\* Dispute as it would be without the check for an open dispute
DisputeNoDuplicateCheck(transaction_id, transaction) ==
    IF transaction_id \in DOMAIN deposits
    THEN LET disputed_deposit == deposits[transaction_id]
         IN  /\ accounts' = OrDefault(
                    [accounts EXCEPT
                        ![disputed_deposit.client].available_funds =
                            @ - disputed_deposit.amount,
                        ![disputed_deposit.client].held_funds =
                            @ + disputed_deposit.amount],
                    transaction.client)
             /\ disputes' = disputes \cup {transaction_id}
             /\ warning' = NoWarning
             /\ UNCHANGED <<deposits, aborted>>
    ELSE /\ accounts' = OrDefault(accounts, transaction.client)
         /\ warning' = WarnInvalidDispute
         /\ UNCHANGED <<deposits, disputes, aborted>>

\* Dispute as it would be if it refused to drive available below zero
DisputeRequiresFunds(transaction_id, transaction) ==
    IF transaction_id \in disputes
    THEN /\ warning' = WarnDuplicateDispute
         /\ UNCHANGED <<accounts, deposits, disputes, aborted>>
    ELSE IF /\ transaction_id \in DOMAIN deposits
            /\ accounts[deposits[transaction_id].client].available_funds >=
                  deposits[transaction_id].amount
    THEN LET disputed_deposit == deposits[transaction_id]
         IN  /\ accounts' = OrDefault(
                    [accounts EXCEPT
                        ![disputed_deposit.client].available_funds =
                            @ - disputed_deposit.amount,
                        ![disputed_deposit.client].held_funds =
                            @ + disputed_deposit.amount],
                    transaction.client)
             /\ disputes' = disputes \cup {transaction_id}
             /\ warning' = NoWarning
             /\ UNCHANGED <<deposits, aborted>>
    ELSE /\ accounts' = OrDefault(accounts, transaction.client)
         /\ warning' = WarnInvalidDispute
         /\ UNCHANGED <<deposits, disputes, aborted>>

\* Dispute as it would be if the unknown-id branch returned like the others
DisputeInvalidReturnsEarly(transaction_id, transaction) ==
    IF transaction_id \in disputes
    THEN /\ warning' = WarnDuplicateDispute
         /\ UNCHANGED <<accounts, deposits, disputes, aborted>>
    ELSE IF transaction_id \in DOMAIN deposits
    THEN LET disputed_deposit == deposits[transaction_id]
         IN  /\ accounts' = OrDefault(
                    [accounts EXCEPT
                        ![disputed_deposit.client].available_funds =
                            @ - disputed_deposit.amount,
                        ![disputed_deposit.client].held_funds =
                            @ + disputed_deposit.amount],
                    transaction.client)
             /\ disputes' = disputes \cup {transaction_id}
             /\ warning' = NoWarning
             /\ UNCHANGED <<deposits, aborted>>
    ELSE /\ warning' = WarnInvalidDispute
         /\ UNCHANGED <<accounts, deposits, disputes, aborted>>

\* Dispute as it would be if it opened a dispute before looking up the deposit
DisputeOpensUnknownId(transaction_id, transaction) ==
    IF transaction_id \in disputes
    THEN /\ warning' = WarnDuplicateDispute
         /\ UNCHANGED <<accounts, deposits, disputes, aborted>>
    ELSE IF transaction_id \in DOMAIN deposits
    THEN LET disputed_deposit == deposits[transaction_id]
         IN  /\ accounts' = OrDefault(
                    [accounts EXCEPT
                        ![disputed_deposit.client].available_funds =
                            @ - disputed_deposit.amount,
                        ![disputed_deposit.client].held_funds =
                            @ + disputed_deposit.amount],
                    transaction.client)
             /\ disputes' = disputes \cup {transaction_id}
             /\ warning' = NoWarning
             /\ UNCHANGED <<deposits, aborted>>
    ELSE /\ accounts' = OrDefault(accounts, transaction.client)
         /\ disputes' = disputes \cup {transaction_id}
         /\ warning' = WarnInvalidDispute
         /\ UNCHANGED <<deposits, aborted>>

\* Dispute as it would be if it froze the account like a chargeback
DisputeLocksAccount(transaction_id, transaction) ==
    IF transaction_id \in disputes
    THEN /\ warning' = WarnDuplicateDispute
         /\ UNCHANGED <<accounts, deposits, disputes, aborted>>
    ELSE IF transaction_id \in DOMAIN deposits
    THEN LET disputed_deposit == deposits[transaction_id]
         IN  /\ accounts' = OrDefault(
                    [accounts EXCEPT
                        ![disputed_deposit.client].available_funds =
                            @ - disputed_deposit.amount,
                        ![disputed_deposit.client].held_funds =
                            @ + disputed_deposit.amount,
                        ![disputed_deposit.client].locked = TRUE],
                    transaction.client)
             /\ disputes' = disputes \cup {transaction_id}
             /\ warning' = NoWarning
             /\ UNCHANGED <<deposits, aborted>>
    ELSE /\ accounts' = OrDefault(accounts, transaction.client)
         /\ warning' = WarnInvalidDispute
         /\ UNCHANGED <<deposits, disputes, aborted>>

Dispute(transaction_id, transaction) ==
    \/ /\ transaction_id \in disputes
       /\ warning' = WarnDuplicateDispute
       /\ UNCHANGED <<accounts, deposits, disputes, aborted>>
    \/ /\ transaction_id \notin disputes
       /\ transaction_id \in DOMAIN deposits
       /\ LET disputed_deposit == deposits[transaction_id]
          IN  IF disputed_deposit.client \notin DOMAIN accounts
              THEN Panic
              ELSE /\ accounts' = OrDefault(
                          [accounts EXCEPT
                              ![disputed_deposit.client].available_funds =
                                  @ - disputed_deposit.amount,
                              ![disputed_deposit.client].held_funds =
                                  @ + disputed_deposit.amount],
                          transaction.client)
                   /\ disputes' = disputes \cup {transaction_id}
                   /\ warning' = NoWarning
                   /\ UNCHANGED <<deposits, aborted>>
    \/ /\ transaction_id \notin disputes
       /\ transaction_id \notin DOMAIN deposits
       /\ accounts' = OrDefault(accounts, transaction.client)
       /\ warning' = WarnInvalidDispute
       /\ UNCHANGED <<deposits, disputes, aborted>>

\* Resolve as it would be without disputes.remove
ResolveKeepsDispute(transaction_id, transaction) ==
    IF transaction_id \notin disputes
    THEN /\ warning' = WarnUndisputedResolve
         /\ UNCHANGED <<accounts, deposits, disputes, aborted>>
    ELSE LET disputed_deposit == deposits[transaction_id]
         IN  /\ accounts' = OrDefault(
                    [accounts EXCEPT
                        ![disputed_deposit.client].held_funds =
                            @ - disputed_deposit.amount,
                        ![disputed_deposit.client].available_funds =
                            @ + disputed_deposit.amount],
                    transaction.client)
             /\ warning' = NoWarning
             /\ UNCHANGED <<deposits, disputes, aborted>>

\* Resolve as it would be without the credit of available_funds
ResolveDebitsHeldOnly(transaction_id, transaction) ==
    IF transaction_id \notin disputes
    THEN /\ warning' = WarnUndisputedResolve
         /\ UNCHANGED <<accounts, deposits, disputes, aborted>>
    ELSE LET disputed_deposit == deposits[transaction_id]
         IN  /\ accounts' = OrDefault(
                    [accounts EXCEPT
                        ![disputed_deposit.client].held_funds =
                            @ - disputed_deposit.amount],
                    transaction.client)
             /\ disputes' = disputes \ {transaction_id}
             /\ warning' = NoWarning
             /\ UNCHANGED <<deposits, aborted>>

Resolve(transaction_id, transaction) ==
    \/ /\ transaction_id \notin disputes
       /\ warning' = WarnUndisputedResolve
       /\ UNCHANGED <<accounts, deposits, disputes, aborted>>
    \/ /\ transaction_id \in disputes
       /\ IF \/ transaction_id \notin DOMAIN deposits
             \/ deposits[transaction_id].client \notin DOMAIN accounts
          THEN Panic
          ELSE LET disputed_deposit == deposits[transaction_id]
               IN  /\ accounts' = OrDefault(
                          [accounts EXCEPT
                              ![disputed_deposit.client].held_funds =
                                  @ - disputed_deposit.amount,
                              ![disputed_deposit.client].available_funds =
                                  @ + disputed_deposit.amount],
                          transaction.client)
                   /\ disputes' = disputes \ {transaction_id}
                   /\ warning' = NoWarning
                   /\ UNCHANGED <<deposits, aborted>>

\* Chargeback as it would be if it acted on the transaction's own client
ChargebackUsesOwnClient(transaction_id, transaction) ==
    IF transaction_id \notin disputes
    THEN /\ warning' = WarnUndisputedChargeback
         /\ UNCHANGED <<accounts, deposits, disputes, aborted>>
    ELSE LET disputed_deposit == deposits[transaction_id]
         IN  /\ accounts' = [OrDefault(accounts, transaction.client) EXCEPT
                                ![transaction.client].held_funds =
                                    @ - disputed_deposit.amount,
                                ![transaction.client].locked = TRUE]
             /\ disputes' = disputes \ {transaction_id}
             /\ warning' = NoWarning
             /\ UNCHANGED <<deposits, aborted>>

\* Chargeback as it would be if it took the amount from available_funds
ChargebackDebitsAvailable(transaction_id, transaction) ==
    IF transaction_id \notin disputes
    THEN /\ warning' = WarnUndisputedChargeback
         /\ UNCHANGED <<accounts, deposits, disputes, aborted>>
    ELSE LET disputed_deposit == deposits[transaction_id]
         IN  /\ accounts' = OrDefault(
                    [accounts EXCEPT
                        ![disputed_deposit.client].available_funds =
                            @ - disputed_deposit.amount,
                        ![disputed_deposit.client].locked = TRUE],
                    transaction.client)
             /\ disputes' = disputes \ {transaction_id}
             /\ warning' = NoWarning
             /\ UNCHANGED <<deposits, aborted>>

\* Chargeback as it would be without disputes.remove
ChargebackKeepsDispute(transaction_id, transaction) ==
    IF transaction_id \notin disputes
    THEN /\ warning' = WarnUndisputedChargeback
         /\ UNCHANGED <<accounts, deposits, disputes, aborted>>
    ELSE LET disputed_deposit == deposits[transaction_id]
         IN  /\ accounts' = OrDefault(
                    [accounts EXCEPT
                        ![disputed_deposit.client].held_funds =
                            @ - disputed_deposit.amount,
                        ![disputed_deposit.client].locked = TRUE],
                    transaction.client)
             /\ warning' = NoWarning
             /\ UNCHANGED <<deposits, disputes, aborted>>

Chargeback(transaction_id, transaction) ==
    \/ /\ transaction_id \notin disputes
       /\ warning' = WarnUndisputedChargeback
       /\ UNCHANGED <<accounts, deposits, disputes, aborted>>
    \/ /\ transaction_id \in disputes
       /\ IF \/ transaction_id \notin DOMAIN deposits
             \/ deposits[transaction_id].client \notin DOMAIN accounts
          THEN Panic
          ELSE LET disputed_deposit == deposits[transaction_id]
               IN  /\ accounts' = OrDefault(
                          [accounts EXCEPT
                              ![disputed_deposit.client].held_funds =
                                  @ - disputed_deposit.amount,
                              ![disputed_deposit.client].locked = TRUE],
                          transaction.client)
                   /\ disputes' = disputes \ {transaction_id}
                   /\ warning' = NoWarning
                   /\ UNCHANGED <<deposits, aborted>>

\* one iteration of main's loop: the next transaction of the input is executed
execute_transaction(transaction_id, transaction) ==
    /\ pc = "ledger"
    /\ ~aborted
    /\ step < MaxSteps
    /\ step' = step + 1
    /\ before' = Database(accounts, deposits, disputes)
    /\ UNCHANGED codec_vars
    /\ last' = [tx |-> transaction_id, type |-> transaction.type,
                client |-> transaction.client, amount |-> transaction.amount]
    /\ \/ transaction.type = "DEPOSIT" /\ Deposit(transaction_id, transaction)
       \/ transaction.type = "WITHDRAWAL" /\ Withdrawal(transaction_id, transaction)
       \/ transaction.type = "DISPUTE" /\ Dispute(transaction_id, transaction)
       \/ transaction.type = "RESOLVE" /\ Resolve(transaction_id, transaction)
       \/ transaction.type = "CHARGEBACK" /\ Chargeback(transaction_id, transaction)

\* the input stream: any transaction whose amount is in amounts
NextOver(amounts) ==
    \E transaction_id \in TxIds, type \in TransactionType,
       client \in Clients, amount \in amounts :
        execute_transaction(transaction_id, Transaction(type, client, amount))

Next == NextOver(Amounts)

Spec == Init /\ [][Next]_vars

\* the same program on inputs whose amounts are all non-negative
NextNonNeg == NextOver(NonNegAmounts)

SpecNonNeg == Init /\ [][NextNonNeg]_vars

\* the same program on inputs with non-negative amounts in which no two
\* DEPOSITs carry the same transaction id
NextUniqueDeposits ==
    \E transaction_id \in TxIds, type \in TransactionType,
       client \in Clients, amount \in NonNegAmounts :
        /\ type = "DEPOSIT" => transaction_id \notin DOMAIN deposits
        /\ execute_transaction(transaction_id, Transaction(type, client, amount))

SpecUniqueDeposits == Init /\ [][NextUniqueDeposits]_vars

(* ---- the codec on its own: one amount text or one balance per behaviour ---- *)

ledger_vars == <<accounts, deposits, disputes, aborted, warning, last, step, before>>

\* an amount column read from the CSV, or a balance about to be reported
InitCodec ==
    /\ EmptyDatabase
    /\ parsed = NoResult
    /\ rendered = <<>>
    /\ \/ pc = "parse" /\ amount_text \in Texts /\ amount_value = 0
       \/ pc = "format" /\ amount_text = <<>> /\ amount_value \in FixedPoints

\* TryFrom<DeserializedTransaction>: the amount column is converted
ParseAmount ==
    /\ pc = "parse"
    /\ parsed' = string_to_fixed_point(amount_text)
    /\ pc' = "parsed"
    /\ UNCHANGED <<amount_text, amount_value, rendered>>
    /\ UNCHANGED ledger_vars

\* Display for BankDatabase: a balance is rendered
FormatAmount ==
    /\ pc = "format"
    /\ rendered' = fixed_point_to_string(amount_value)
    /\ pc' = "formatted"
    /\ UNCHANGED <<amount_text, amount_value, parsed>>
    /\ UNCHANGED ledger_vars

\* the rendered balance is read back as an amount
ParseRendered ==
    /\ pc = "formatted"
    /\ amount_text' = rendered
    /\ parsed' = string_to_fixed_point(rendered)
    /\ pc' = "round_trip"
    /\ UNCHANGED <<amount_value, rendered>>
    /\ UNCHANGED ledger_vars

NextCodec == ParseAmount \/ FormatAmount \/ ParseRendered

SpecCodec == InitCodec /\ [][NextCodec]_vars

TypeOK ==
    /\ DOMAIN accounts \subseteq Clients
    /\ \A c \in DOMAIN accounts :
          /\ accounts[c].available_funds \in Int
          /\ accounts[c].held_funds \in Int
          /\ accounts[c].locked \in BOOLEAN
    /\ DOMAIN deposits \subseteq TxIds
    /\ \A t \in DOMAIN deposits :
          /\ deposits[t].client \in Clients
          /\ deposits[t].amount \in Amounts \cup NonNegAmounts
    /\ disputes \subseteq TxIds
    /\ aborted \in BOOLEAN
    /\ step \in 0..MaxSteps

(* ---- helpers of the properties ---- *)

\* the last step consumed a transaction of one of the given types
Executed(types) == step' = step + 1 /\ last'.type \in types

\* an account as the report would show it had it been created by now
View(accts, client) ==
    IF client \in DOMAIN accts THEN accts[client] ELSE DefaultAccount

\* accounts other than client are as before, or freshly created and zeroed
OthersUntouched(client) ==
    /\ DOMAIN accounts \subseteq DOMAIN accounts'
    /\ \A c \in DOMAIN accounts' \ {client} : accounts'[c] = View(accounts, c)

(* ---- C1 ---- *)
C1_Step ==
    Executed({"WITHDRAWAL"}) =>
        LET c == last'.client
            a == last'.amount
            pre == OrDefault(accounts, c)
            rejected == warning' # NoWarning
        IN  /\ rejected <=> (pre[c].locked \/ pre[c].available_funds < a)
            /\ deposits' = deposits
            /\ disputes' = disputes
            /\ rejected => accounts' = pre
            /\ ~rejected => accounts' = [pre EXCEPT ![c].available_funds = @ - a]

\* C1: a WITHDRAWAL of amount a on client c is rejected if and only if c is
\* locked or available(c) < a; a rejected one changes nothing but the lazy
\* creation of c's zeroed account, an accepted one decreases available(c) by
\* exactly a and changes nothing else.
C1_WithdrawalRejectedIffLockedOrInsufficient == [][C1_Step]_vars

\* a withdrawal of the whole positive balance was accepted
C1_Witness ==
    /\ last.type = "WITHDRAWAL"
    /\ warning = NoWarning
    /\ last.amount > 0
    /\ accounts[last.client].available_funds = 0

(* ---- C2 ---- *)
\* C2: after any sequence of transactions with non-negative amounts,
\* available(c) >= 0 for every account c.
C2_AvailableNeverNegative ==
    \A c \in DOMAIN accounts : accounts[c].available_funds >= 0

(* ---- C3 ---- *)
C3_Step ==
    /\ \A c \in DOMAIN accounts :
          accounts[c].locked =>
            /\ c \in DOMAIN accounts'
            /\ accounts'[c].locked
            /\ (Executed({"WITHDRAWAL"}) /\ last'.client = c) =>
                  /\ warning' = WarnFrozen
                  /\ accounts'[c].available_funds = accounts[c].available_funds
    /\ (Executed({"CHARGEBACK"}) /\ warning' = NoWarning) =>
          /\ last'.tx \in DOMAIN deposits
          /\ deposits[last'.tx].client \in DOMAIN accounts'
          /\ accounts'[deposits[last'.tx].client].locked

\* C3: an accepted CHARGEBACK locks the deposit's account; a locked account
\* stays locked whatever follows, and every later WITHDRAWAL on it is
\* rejected with available unchanged, however much is available.
C3_LockedForeverAndNoWithdrawal == [][C3_Step]_vars

\* a withdrawal the balance would cover was rejected on a locked account
C3_Witness ==
    /\ last.type = "WITHDRAWAL"
    /\ warning = WarnFrozen
    /\ last.amount > 0
    /\ accounts[last.client].locked
    /\ accounts[last.client].available_funds >= last.amount

(* ---- C4 ---- *)
C4_Step ==
    (Executed({"DISPUTE"}) /\ last'.tx \in disputes) =>
        /\ accounts' = accounts
        /\ deposits' = deposits
        /\ disputes' = disputes

\* C4: a DISPUTE on an id that is already in the disputed-set changes no
\* account, no deposit record and not the disputed-set.
C4_DuplicateDisputeIsNoOp == [][C4_Step]_vars

\* a dispute was dropped as a duplicate while funds of its deposit are held
C4_Witness ==
    /\ last.type = "DISPUTE"
    /\ warning = WarnDuplicateDispute
    /\ last.tx \in disputes
    /\ deposits[last.tx].amount > 0
    /\ accounts[deposits[last.tx].client].held_funds = deposits[last.tx].amount

(* ---- C5 ---- *)
C5_Step ==
    Executed({"RESOLVE", "CHARGEBACK"}) =>
        /\ last'.tx \notin disputes =>
              /\ warning' # NoWarning
              /\ accounts' = accounts
              /\ deposits' = deposits
              /\ disputes' = disputes
        /\ last'.tx \in disputes =>
              /\ warning' = NoWarning
              /\ disputes' = disputes \ {last'.tx}

\* C5: a RESOLVE or CHARGEBACK whose id is not in the disputed-set changes
\* no balance, no locked flag, no deposit record and not the disputed-set; an
\* accepted one removes its id from the disputed-set (so repeating it at
\* once is a no-op).
C5_UndisputedResolveChargebackIsNoOp == [][C5_Step]_vars

\* a chargeback was dropped on a recorded deposit whose account is locked
C5_Witness ==
    /\ last.type = "CHARGEBACK"
    /\ warning = WarnUndisputedChargeback
    /\ last.tx \in DOMAIN deposits
    /\ last.tx \notin disputes
    /\ accounts[deposits[last.tx].client].locked

(* ---- C6 ---- *)
C6_Step ==
    Executed({"DISPUTE"}) =>
        LET t == last'.tx
            accepted == warning' = NoWarning
        IN  /\ accepted <=> (t \notin disputes /\ t \in DOMAIN deposits)
            /\ accepted =>
                  LET dc == deposits[t].client
                      amt == deposits[t].amount
                  IN  /\ dc \in DOMAIN accounts
                      /\ accounts'[dc].available_funds =
                            accounts[dc].available_funds - amt
                      /\ accounts'[dc].held_funds = accounts[dc].held_funds + amt
                      /\ disputes' = disputes \cup {t}

\* C6: a DISPUTE on id t is accepted exactly when t is not in the
\* disputed-set and a deposit record exists for t, whatever the account's
\* balance or locked flag and whether or not t was resolved or charged back
\* before; accepted, it moves the record's amount from available to held on
\* the record's account and adds t to the disputed-set.
C6_DisputeAcceptedIffRecordedAndNotOpen == [][C6_Step]_vars

\* a dispute was accepted on a locked account and drove available below zero
C6_Witness ==
    /\ last.type = "DISPUTE"
    /\ warning = NoWarning
    /\ last.tx \in disputes
    /\ accounts[deposits[last.tx].client].locked
    /\ accounts[deposits[last.tx].client].available_funds < 0

(* ---- C7 ---- *)
\* C7: after execute_transaction has processed any transaction, accepted or
\* rejected, the account mapping contains an account for the client field
\* carried by that transaction.
C7_ClientAccountExistsAfterAnyTransaction ==
    step > 0 => last.client \in DOMAIN accounts

(* ---- C8 ---- *)
C8_Step ==
    Executed({"DEPOSIT"}) =>
        LET c == last'.client
            a == last'.amount
            pre == OrDefault(accounts, c)
        IN  /\ warning' = NoWarning
            /\ ~aborted'
            /\ accounts' = [pre EXCEPT ![c].available_funds = @ + a]
            /\ disputes' = disputes
            /\ last'.tx \in DOMAIN deposits'
            /\ deposits'[last'.tx] = [client |-> c, amount |-> a]

\* C8: a DEPOSIT of amount a to client c always succeeds, also when c is
\* locked: available(c) grows by exactly a, held(c), locked(c), every other
\* account and the disputed-set are unchanged, and the record {client c,
\* amount a} is stored under the transaction id.
C8_DepositAlwaysCredits == [][C8_Step]_vars

\* a positive deposit was credited to a locked account
C8_Witness ==
    /\ last.type = "DEPOSIT"
    /\ last.amount > 0
    /\ accounts[last.client].locked
    /\ deposits[last.tx] = [client |-> last.client, amount |-> last.amount]

(* ---- C9 ---- *)
C9_Step ==
    (Executed({"DISPUTE", "RESOLVE", "CHARGEBACK"}) /\ warning' = NoWarning) =>
        /\ last'.tx \in DOMAIN deposits
        /\ LET dc == deposits[last'.tx].client
               amt == deposits[last'.tx].amount
               delta == IF last'.type = "DISPUTE" THEN amt ELSE 0 - amt
           IN  /\ dc \in DOMAIN accounts
               /\ OthersUntouched(dc)
               /\ accounts'[dc].held_funds = accounts[dc].held_funds + delta
               /\ accounts'[dc].available_funds =
                     IF last'.type = "CHARGEBACK"
                     THEN accounts[dc].available_funds
                     ELSE accounts[dc].available_funds - delta
               /\ accounts'[dc].locked =
                     (accounts[dc].locked \/ last'.type = "CHARGEBACK")

\* C9: an accepted DISPUTE, RESOLVE or CHARGEBACK with id t changes balances
\* and the locked flag only on the account of the client stored in the
\* deposit record of t, by the amount stored in that record; the
\* transaction's own client and amount are ignored, and an own client that
\* differs from the record's keeps its available, held and locked (zero and
\* unlocked if its account is only created now).
C9_DisputeFlowActsOnDepositClientOnly == [][C9_Step]_vars

\* a transaction of the dispute flow was accepted whose own client and amount
\* both differ from those of the deposit record
C9_Witness ==
    /\ last.type \in {"DISPUTE", "RESOLVE", "CHARGEBACK"}
    /\ warning = NoWarning
    /\ last.tx \in DOMAIN deposits
    /\ deposits[last.tx].amount > 0
    /\ last.client # deposits[last.tx].client
    /\ last.amount # deposits[last.tx].amount
    /\ accounts[last.client] = DefaultAccount

(* ---- C10 ---- *)
C10_Step ==
    (Executed({"CHARGEBACK"}) /\ warning' = NoWarning) =>
        /\ last'.tx \in DOMAIN deposits
        /\ LET dc == deposits[last'.tx].client
               amt == deposits[last'.tx].amount
           IN  /\ dc \in DOMAIN accounts
               /\ accounts'[dc] = [accounts[dc] EXCEPT !.held_funds = @ - amt,
                                                       !.locked = TRUE]
               /\ get_total_funds(accounts'[dc]) =
                     get_total_funds(accounts[dc]) - amt
               /\ last'.tx \in disputes
               /\ disputes' = disputes \ {last'.tx}
               /\ OthersUntouched(dc)

\* C10: an accepted CHARGEBACK on id t subtracts the record's amount from
\* held on the record's account, locks that account, leaves its available
\* unchanged (its total drops by exactly the amount), removes t from the
\* disputed-set and changes no other account.
C10_ChargebackDebitsHeldAndLocks == [][C10_Step]_vars

\* a chargeback of a positive deposit was accepted and emptied held
C10_Witness ==
    /\ last.type = "CHARGEBACK"
    /\ warning = NoWarning
    /\ deposits[last.tx].amount > 0
    /\ accounts[deposits[last.tx].client].locked
    /\ accounts[deposits[last.tx].client].held_funds = 0
    /\ last.tx \notin disputes
(* ---- C12 ---- *)
C12_Step ==
    (Executed({"DISPUTE"}) /\ last'.tx \notin DOMAIN deposits) =>
        /\ warning' = WarnInvalidDispute
        /\ deposits' = deposits
        /\ disputes' = disputes
        /\ \A c \in DOMAIN accounts :
              c \in DOMAIN accounts' /\ accounts'[c] = accounts[c]
        /\ last'.client \in DOMAIN accounts'
        /\ last'.client \notin DOMAIN accounts =>
              accounts'[last'.client] = DefaultAccount
        /\ DOMAIN accounts' = DOMAIN accounts \cup {last'.client}

\* C12: a DISPUTE whose id has no deposit record (an id never seen, or the id
\* of a WITHDRAWAL) changes no existing account, no deposit record and not
\* the disputed-set, and leaves the dispute's own client with an account that
\* is all-zero and unlocked if it had none before.
C12_DisputeWithoutRecordOnlyCreatesAccount == [][C12_Step]_vars

\* a dispute on an unrecorded id created its client's zeroed account next to
\* an account that holds funds
C12_Witness ==
    /\ last.type = "DISPUTE"
    /\ warning = WarnInvalidDispute
    /\ last.tx \notin DOMAIN deposits
    /\ accounts[last.client] = DefaultAccount
    /\ \E c \in DOMAIN accounts : accounts[c].available_funds > 0

(* ---- C13 ---- *)
\* C13: execute_transaction never aborts: in every reachable state each id in
\* the disputed-set has a deposit record and each deposit record's client has
\* an account, so none of the expect lookups of DISPUTE, RESOLVE and
\* CHARGEBACK fails, and the transactions after a rejected one are processed.
C13_NeverAborts ==
    /\ ~aborted
    /\ disputes \subseteq DOMAIN deposits
    /\ \A t \in DOMAIN deposits : deposits[t].client \in DOMAIN accounts

\* a RESOLVE went through its two expect lookups while another dispute is
\* open, at the end of the input
C13_Witness ==
    /\ step = MaxSteps
    /\ last.type = "RESOLVE"
    /\ warning = NoWarning
    /\ disputes # {}
    /\ last.tx \in DOMAIN deposits
    /\ ~aborted

(* ---- C20 ---- *)
C20_Step ==
    \A t \in DOMAIN deposits :
        t \in DOMAIN deposits' /\ deposits'[t] = deposits[t]

\* C20: once a deposit record exists for id t, no later transaction of any
\* type changes its client or its amount or removes it, a later DEPOSIT with
\* the same id t included.
C20_DepositRecordImmutable == [][C20_Step]_vars

(* ---- C11 ---- *)
\* the step is a RESOLVE of the id whose DISPUTE has just been accepted
C11_ResolveRightAfterDispute ==
    /\ last.type = "DISPUTE"
    /\ warning = NoWarning
    /\ Executed({"RESOLVE"})
    /\ last'.tx = last.tx

C11_OriginalStep ==
    C11_ResolveRightAfterDispute =>
        /\ accounts' = before.accounts
        /\ deposits' = before.deposits
        /\ disputes' = before.disputes

\* C11 as stated: DISPUTE t followed at once by RESOLVE t restores the exact
\* state before the DISPUTE: every account, the deposit records and the
\* disputed-set.
C11_DisputeResolveRestoresExactState == [][C11_OriginalStep]_vars

C11_AmendedStep ==
    C11_ResolveRightAfterDispute =>
        /\ warning' = NoWarning
        /\ deposits' = before.deposits
        /\ disputes' = before.disputes
        /\ \A c \in DOMAIN before.accounts :
              c \in DOMAIN accounts' /\ accounts'[c] = before.accounts[c]
        /\ \A c \in DOMAIN accounts' \ DOMAIN before.accounts :
              /\ accounts'[c] = DefaultAccount
              /\ c \in {last.client, last'.client}
        /\ {last.client, last'.client} \subseteq DOMAIN accounts'

\* C11 amended: DISPUTE t followed at once by RESOLVE t restores available,
\* held and locked of every account that existed before the DISPUTE, the
\* deposit records and the disputed-set; the own clients of the two
\* transactions have an account afterwards, zeroed and unlocked if new.
C11_DisputeResolveRestoresBalances == [][C11_AmendedStep]_vars

\* the third transaction of the input was an accepted RESOLVE (so the first
\* was the DEPOSIT and the second the DISPUTE of its id), the deposit was
\* positive and the RESOLVE's own client had no account before
C11_Witness ==
    /\ step = 3
    /\ last.type = "RESOLVE"
    /\ warning = NoWarning
    /\ deposits[last.tx].amount > 0
    /\ before.accounts[deposits[last.tx].client].held_funds =
          deposits[last.tx].amount
    /\ accounts[deposits[last.tx].client].held_funds = 0
    /\ last.client \notin DOMAIN before.accounts

(* ---- helpers of the codec's properties ---- *)

AllDigits(text) == \A i \in 1..Len(text) : text[i] \in Digits

\* the number of dots of a text
Dots(text) == Cardinality({i \in 1..Len(text) : text[i] = "."})

\* with exactly one dot: what stands before it and what stands after it
IntegerPart(text) == Split(text)[1]
FractionPart(text) == Split(text)[2]

\* the digits weighted by the powers of ten from 10^exponent downwards
RECURSIVE WeightedSum(_, _)
WeightedSum(digits, exponent) ==
    IF Len(digits) = 0 THEN 0
    ELSE DigitValue(Head(digits)) * Pow10(exponent)
         + WeightedSum(Tail(digits), exponent - 1)

\* a non-negative digit string, one dot and 1 to 4 fraction digits
WellFormedAmount(text) ==
    /\ Dots(text) = 1
    /\ Len(IntegerPart(text)) >= 1
    /\ AllDigits(IntegerPart(text))
    /\ Len(FractionPart(text)) \in 1..4
    /\ AllDigits(FractionPart(text))

\* the text read as a decimal number, in ten-thousandths
TenThousandths(text) ==
    WeightedSum(IntegerPart(text), Len(IntegerPart(text)) - 1) * 10000
    + WeightedSum(FractionPart(text), 3)

(* ---- C14 ---- *)
\* C14: on a non-negative digit string, one dot and 1 to 4 fraction digits,
\* string_to_fixed_point returns integer part * 10000 + fraction digits *
\* 10^(4 - number of fraction digits), the decimal value in ten-thousandths;
\* a zero appended to a fraction of fewer than 4 digits does not change it.
C14_ParseIsDecimalValue ==
    (pc = "parsed" /\ WellFormedAmount(amount_text)) =>
        /\ parsed = Ok(TenThousandths(amount_text))
        /\ Len(FractionPart(amount_text)) < 4 =>
              string_to_fixed_point(amount_text \o <<"0">>) = parsed

\* "1.10" was converted to 11000
C14_Witness ==
    /\ pc = "parsed"
    /\ amount_text = <<"1", ".", "1", "0">>
    /\ parsed = Ok(11000)

(* ---- C15 ---- *)
\* the text denotes a negative amount: a minus sign on the integer part, or a
\* sign on the fraction part
CarriesSign(text) ==
    /\ Dots(text) = 1
    /\ \/ Len(IntegerPart(text)) >= 1 /\ IntegerPart(text)[1] = "-"
       \/ Len(FractionPart(text)) >= 1 /\ FractionPart(text)[1] \in {"-", "+"}

\* C15: string_to_fixed_point never returns Ok for text that denotes a
\* negative amount: a minus sign on the integer part (a zero one included) or
\* a sign on the fraction part yields an error, so every amount that reaches
\* the ledger is >= 0.
C15_NegativeTextIsAnError ==
    pc = "parsed" =>
        /\ CarriesSign(amount_text) => parsed.kind = "Err"
        /\ parsed.kind = "Ok" => parsed.value >= 0

(* ---- C16 ---- *)
\* C16 as stated: string_to_fixed_point returns an error, not an abort, for
\* every text without a dot, with two or more dots, or with a fraction part of
\* more than 4 characters.
C16_MalformedTextIsAnError ==
    pc = "parsed" =>
        /\ Dots(amount_text) # 1 => parsed.kind = "Err"
        /\ (Dots(amount_text) = 1 /\ Len(FractionPart(amount_text)) > 4) =>
              parsed.kind = "Err"

\* C16 amended: string_to_fixed_point returns an error, not an abort, for
\* every text without a dot, with two or more dots, or with exactly one dot, a
\* fraction part of more than 4 characters and an integer part that parses as
\* an i64; an integer part that does not parse aborts first.
C16_MalformedTextIsAnErrorIfUnitsParse ==
    pc = "parsed" =>
        /\ Dots(amount_text) # 1 => parsed.kind = "Err"
        /\ (Dots(amount_text) = 1 /\ Len(FractionPart(amount_text)) > 4) =>
              IF ParseI64(IntegerPart(amount_text)).kind = "Ok"
              THEN parsed.kind = "Err"
              ELSE parsed.kind = "Panic"

\* a fraction of five digits after a one-digit integer part was refused
C16_Witness ==
    /\ pc = "parsed"
    /\ Dots(amount_text) = 1
    /\ IntegerPart(amount_text) = <<"1">>
    /\ Len(FractionPart(amount_text)) = 5
    /\ AllDigits(FractionPart(amount_text))
    /\ parsed.kind = "Err"

(* ---- C17 ---- *)
\* a number below 10000 written with exactly four digits
FourDigits(n) ==
    <<DigitChar(n \div 1000), DigitChar((n \div 100) % 10),
      DigitChar((n \div 10) % 10), DigitChar(n % 10)>>

\* C17: fixed_point_to_string(v) renders the units v / 10000 (truncating), a
\* dot, and the fraction |v| % 10000 zero-padded on the left to exactly 4
\* digits, so every balance of the report has exactly 4 fraction digits.
C17_FractionHasFourDigits ==
    pc = "formatted" =>
        rendered = I64ToString(TruncDiv(amount_value, 10000)) \o <<".">>
                   \o FourDigits(Abs(amount_value) % 10000)

(* ---- C18 ---- *)
\* C18: for every non-negative fixed-point value x,
\* string_to_fixed_point(fixed_point_to_string(x)) = Ok(x).
C18_RoundTrip ==
    (pc = "round_trip" /\ amount_value >= 0) => parsed = Ok(amount_value)

(* ---- C19 ---- *)
\* C19: for every negative value v, those with -10000 < v < 0 included,
\* fixed_point_to_string(v) begins with a minus sign.
C19_NegativeRendersWithMinus ==
    (pc = "formatted" /\ amount_value < 0) => rendered[1] = "-"

(* ---- C21 ---- *)
C21_Step ==
    /\ \A c \in DOMAIN accounts' : accounts'[c].held_funds >= 0
    /\ \A c \in DOMAIN accounts' :
          accounts'[c].held_funds # View(accounts, c).held_funds =>
            /\ Executed({"DISPUTE", "RESOLVE", "CHARGEBACK"})
            /\ warning' = NoWarning
            /\ last'.tx \in DOMAIN deposits
            /\ deposits[last'.tx].client = c

\* C21: on inputs with non-negative amounts in which no two DEPOSITs share a
\* transaction id, held(c) >= 0 for every account c in every reachable state,
\* and held(c) is changed only by accepted DISPUTE, RESOLVE and CHARGEBACK
\* transactions, never by DEPOSIT or WITHDRAWAL.
C21_HeldNonNegativeAndOnlyDisputeFlowChangesIt == [][C21_Step]_vars

\* a withdrawal was accepted on an account with funds held, and held is as it
\* was before the withdrawal
C21_Witness ==
    /\ last.type = "WITHDRAWAL"
    /\ warning = NoWarning
    /\ last.amount > 0
    /\ accounts[last.client].held_funds > 0
    /\ accounts[last.client].held_funds = before.accounts[last.client].held_funds

(* ---- C22 ---- *)
C22_Step ==
    /\ \A c \in DOMAIN accounts' :
          (accounts'[c].locked /\ ~View(accounts, c).locked) =>
            /\ Executed({"CHARGEBACK"})
            /\ warning' = NoWarning
            /\ last'.tx \in disputes
            /\ last'.tx \in DOMAIN deposits
            /\ deposits[last'.tx].client = c
    /\ Executed({"DEPOSIT", "WITHDRAWAL", "DISPUTE", "RESOLVE"}) =>
          \A c \in DOMAIN accounts :
              c \in DOMAIN accounts' /\ accounts'[c].locked = accounts[c].locked
    /\ \A c \in DOMAIN accounts' \ DOMAIN accounts :
          /\ ~accounts'[c].locked
          /\ accounts'[c].held_funds = 0
          /\ accounts'[c].available_funds =
                CASE last'.type = "DEPOSIT" /\ last'.client = c -> 0 + last'.amount
                  [] last'.type = "WITHDRAWAL" /\ last'.client = c
                        /\ warning' = NoWarning -> 0 - last'.amount
                  [] OTHER -> 0

\* C22: an account becomes locked only by an accepted CHARGEBACK on an id
\* whose deposit record names it as client at that moment (so a locked
\* account always has such a CHARGEBACK behind it); DEPOSIT, WITHDRAWAL,
\* DISPUTE and RESOLVE never change a locked flag, and a new account starts
\* unlocked with zero balances, to which the DEPOSIT or accepted WITHDRAWAL
\* that creates it is then applied.
C22_OnlyChargebackLocks == [][C22_Step]_vars

\* a chargeback has just locked the account of its deposit record, which was
\* unlocked before, next to an unlocked account of another client
C22_Witness ==
    /\ last.type = "CHARGEBACK"
    /\ warning = NoWarning
    /\ accounts[deposits[last.tx].client].locked
    /\ ~before.accounts[deposits[last.tx].client].locked
    /\ \E c \in DOMAIN accounts :
          c # deposits[last.tx].client /\ ~accounts[c].locked

====
